---- MODULE Spec2Model ----
(***************************************************************************)
(* ON-and-ORDER: a digit code-breaking game (src/screens/GameScreen.tsx,   *)
(* utils/gameLogic.ts = src/unnamed/part_015, the NetworkAdapter of        *)
(* src/unnamed/part_013 that GameScreen.tsx constructs with three          *)
(* arguments).                                                             *)
(*                                                                         *)
(* A string is a sequence of character codes: 0..9 are the digits '0'..'9' *)
(* and NonDigit stands for a character that is not a digit ('a').  The     *)
(* empty string '' is << >>.                                               *)
(***************************************************************************)
EXTENDS Integers, Sequences, FiniteSets, TLC

VARIABLES
    pure,          \* the pure-function harness: a call and its result
    mode,          \* config.mode: "1P", "2P" or "ONLINE"
    gs,            \* gameState of each GameScreen instance (one per peer)
    timeLeft,      \* the timeLeft state of each instance
    isAiThinking,  \* the isAiThinking state (a CPU callback is pending)
    slot,          \* matches/<code>/lastMessage, the shared last-writer-wins slot
    seen,          \* seen[p]: p's current listener has been called with slot
    snap,          \* gameState captured by the closure the adapter of p calls
    used,          \* how many online restarts and manual refreshes were made
    lost,          \* a message was overwritten in the slot before its delivery
    screen,        \* App.currentScreen of each device: "game" or "home"
    session,       \* localStorage[ACTIVE_SESSION_KEY] of each device
    join,          \* the lobby entry, the join code and the joinMatchByCode calls
    lastOp         \* the handler that ran last, with its input (trace variable)

vars == <<pure, mode, gs, timeLeft, isAiThinking, slot, seen, snap, used, lost,
         screen, session, join, lastOp>>
gameVars == <<mode, gs, timeLeft, isAiThinking, slot, seen, snap, used, lost,
             screen, session, lastOp>>

-----------------------------------------------------------------------------
(* Bounds of the model.                                                    *)

\* digits 0..MaxDigit are used for the secrets and guesses of a match
MaxDigit == 1
\* digits 0..PureMaxDigit are used for the inputs of the pure functions
PureMaxDigit == 3
\* strings given to validateSequence have at most MaxStrLen characters
MaxStrLen == 5
\* each history holds at most MaxHist records
MaxHist == 2
\* config.timeLimit, scaled down from 30 | 60 | 90 seconds
TimeLimit == 2
\* an online match is restarted (PLAY AGAIN) at most MaxRestart times
MaxRestart == 1
\* REFRESH is pressed outside the lobby at most MaxRefresh times
MaxRefresh == 0
\* config.n of the matches played (types.ts: 2 | 3 | 4)
N == 2

\* the code of a character that is not a digit
NonDigit == 10

Digits == 0..MaxDigit
PureDigits == 0..PureMaxDigit
Ns == {2, 3, 4}

Range(s) == {s[i] : i \in 1..Len(s)}

\* all strings over the characters C of length 0..k
RECURSIVE StringsUpTo(_, _)
StringsUpTo(C, k) ==
    IF k = 0 THEN {<< >>}
    ELSE LET shorter == StringsUpTo(C, k - 1)
         IN  shorter \cup {Append(s, c) : s \in {t \in shorter : Len(t) = k - 1}, c \in C}

\* the repeat-free strings of length k over the digits D
RepeatFree(D, k) == {s \in StringsUpTo(D, k) : Len(s) = k /\ Cardinality(Range(s)) = k}

-----------------------------------------------------------------------------
(* utils/gameLogic.ts                                                      *)

\* /^\d+$/.test(sequence): one or more characters, each an ASCII digit
AllDigitsRegex(sequence) ==
    /\ Len(sequence) > 0
    /\ \A i \in 1..Len(sequence) : sequence[i] \in 0..9

\* variant: the length of the string taken for the size of its digit set
UniqueSizeIsLength(sequence) == Len(sequence)

\* new Set(sequence.split('')).size
UniqueSize(sequence) == Cardinality(Range(sequence))

\* variant: the repeat test runs before the digits-only test
validateSequenceRepeatsFirst(sequence, n) ==
    IF Len(sequence) # n
    THEN [valid |-> FALSE, error |-> "Length must be n"]
    ELSE IF UniqueSize(sequence) # Len(sequence)
    THEN [valid |-> FALSE, error |-> "No repeated digits allowed"]
    ELSE IF ~AllDigitsRegex(sequence)
    THEN [valid |-> FALSE, error |-> "Only digits 0-9 allowed"]
    ELSE [valid |-> TRUE, error |-> "none"]

validateSequence(sequence, n) ==
    IF Len(sequence) # n
    THEN [valid |-> FALSE, error |-> "Length must be n"]
    ELSE IF ~AllDigitsRegex(sequence)
    THEN [valid |-> FALSE, error |-> "Only digits 0-9 allowed"]
    ELSE IF UniqueSize(sequence) # Len(sequence)
    THEN [valid |-> FALSE, error |-> "No repeated digits allowed"]
    ELSE [valid |-> TRUE, error |-> "none"]

\* the loop "for (i = 0; i < secretArr.length; i++) if (secretArr[i] === guessArr[i]) order++"
\* (guessArr[i] is undefined past the end of guess, and equals no character)
RECURSIVE OrderLoop(_, _, _, _)
OrderLoop(secretArr, guessArr, i, order) ==
    IF i > Len(secretArr) THEN order
    ELSE OrderLoop(secretArr, guessArr, i + 1,
                   IF i <= Len(guessArr) /\ secretArr[i] = guessArr[i]
                   THEN order + 1 ELSE order)

\* guessSet.forEach(digit => { if (secretSet.has(digit)) on++ }), over the
\* distinct characters of guess
RECURSIVE OnLoop(_, _, _)
OnLoop(secretSet, guessSet, on) ==
    IF guessSet = {} THEN on
    ELSE LET digit == CHOOSE d \in guessSet : TRUE
         IN  OnLoop(secretSet, guessSet \ {digit},
                    IF digit \in secretSet THEN on + 1 ELSE on)

\* variant: a digit in its right position is not counted in on as well
computeOnAndOrderExclusive(secret, guess) ==
    LET order == OrderLoop(secret, guess, 1, 0)
    IN  [on    |-> OnLoop(Range(secret), Range(guess), 0) - order,
         order |-> order]

\* variant: the order loop starts at the second position
computeOnAndOrderSkipFirst(secret, guess) ==
    [on    |-> OnLoop(Range(secret), Range(guess), 0),
     order |-> OrderLoop(secret, guess, 2, 0)]

\* variant: the two counts are returned under each other's name
computeOnAndOrderSwappedFields(secret, guess) ==
    [on    |-> OrderLoop(secret, guess, 1, 0),
     order |-> OnLoop(Range(secret), Range(guess), 0)]

\* variant: the digit 0 of the secret is not entered into secretSet
computeOnAndOrderZeroNotInSet(secret, guess) ==
    [on    |-> OnLoop(Range(secret) \ {0}, Range(guess), 0),
     order |-> OrderLoop(secret, guess, 1, 0)]

\* variant: every position of the secret is compared with the first
\* character of the guess
computeOnAndOrderFirstGuessDigit(secret, guess) ==
    [on    |-> OnLoop(Range(secret), Range(guess), 0),
     order |-> Cardinality({i \in 1..Len(secret) :
                               Len(guess) > 0 /\ secret[i] = guess[1]})]

computeOnAndOrder(secret, guess) ==
    [on    |-> OnLoop(Range(secret), Range(guess), 0),
     order |-> OrderLoop(secret, guess, 1, 0)]

\* the digits of D in the order of the array ['0', ..., '9']
RECURSIVE digitsOf(_)
digitsOf(D) ==
    IF D = {} THEN << >>
    ELSE LET least == CHOOSE d \in D : \A e \in D : d <= e
         IN  <<least>> \o digitsOf(D \ {least})

\* variant: the drawn digit is left in the array
spliceNothing(available, randomIndex) == available

\* available.splice(randomIndex, 1), randomIndex counted from 1
splice(available, randomIndex) ==
    [i \in 1..(Len(available) - 1) |->
        IF i < randomIndex THEN available[i] ELSE available[i + 1]]

\* the loop of generateRandomSecret: count draws, each at the index
\* array[i] % available.length, any index of the array for some random word
RECURSIVE drawLoop(_, _)
drawLoop(available, count) ==
    IF count = 0 THEN {<< >>}
    ELSE UNION {{<<available[randomIndex]>> \o rest :
                    rest \in drawLoop(splice(available, randomIndex), count - 1)} :
                randomIndex \in 1..Len(available)}

\* generateRandomSecret(n): the set of strings the call can return (the
\* second argument that GameScreen.tsx passes is not a parameter of the
\* function)
generateRandomSecret(D, n) == drawLoop(digitsOf(D), n)

\* the test of one complete candidate against only the "on" of every move
isConsistentOnOnly(current, history) ==
    \A i \in 1..Len(history) :
        computeOnAndOrder(current, history[i].guess).on = history[i].on

\* getCpuPerfectGuess, the test of one complete candidate: history.every(move
\* => check.on === move.on && check.order === move.order)
isConsistent(current, history) ==
    \A i \in 1..Len(history) :
        LET check == computeOnAndOrder(current, history[i].guess)
        IN  check.on = history[i].on /\ check.order = history[i].order

\* getCpuPerfectGuess, backtrack(''): the repeat-free strings of length n
\* over the digits D that pass the test
candidates(D, n, history) ==
    {current \in RepeatFree(D, n) : isConsistent(current, history)}

\* variant: an element of the candidate list is returned even when the list
\* is empty (candidates[0] of an empty array, an empty guess)
getCpuPerfectGuessNoFallback(D, n, history) ==
    IF Len(history) = 0 THEN generateRandomSecret(D, n)
    ELSE IF candidates(D, n, history) = {} THEN {<< >>}
    ELSE candidates(D, n, history)

\* getCpuPerfectGuess(n, history): the set of strings the call can return
\* (a random secret for an empty history or an empty candidate list, a
\* random element of the candidate list otherwise)
getCpuPerfectGuess(D, n, history) ==
    IF Len(history) = 0 THEN generateRandomSecret(D, n)
    ELSE IF candidates(D, n, history) = {} THEN generateRandomSecret(D, n)
    ELSE candidates(D, n, history)

-----------------------------------------------------------------------------
(* src/screens/GameScreen.tsx: the state of a GameScreen instance          *)

\* joinMatchByCode is called by MaxCallers clients with the same join code
MaxCallers == 3
Callers == 1..MaxCallers
\* after hostMatchInLobby: joinCodes/<code> exists, lobby/<matchId> is
\* waiting_for_opponent ("none": the node does not exist), no call has begun
JoinStart ==
    [code  |-> TRUE,
     lobby |-> "waiting_for_opponent",
     pc    |-> [c \in Callers |-> "start"]]

Peers == {"HOST", "GUEST"}
Modes == {"1P", "2P", "ONLINE"}
Phases == {"SETUP_P1", "SETUP_P2", "TRANSITION", "WAITING_FOR_OPPONENT",
           "TURN_P1", "TURN_P2", "GAME_OVER"}

isSinglePlayer == mode = "1P"
isOnline == mode = "ONLINE"
\* config.role === 'HOST' (a local match has no role)
isHost(p) == isOnline /\ p = "HOST"
\* "For Online, Host is always Player 1, Guest is Player 2"
isPlayer1(p) == ~isOnline \/ isHost(p)
\* the instances that exist: both peers online, one screen otherwise
\* the devices whose GameScreen is mounted
Screens == {p \in (IF isOnline THEN Peers ELSE {"HOST"}) : screen[p] = "game"}
Other(p) == IF p = "HOST" THEN "GUEST" ELSE "HOST"

\* the useState initialiser of gameState without a saved session; winner
\* null is "null", opponentName is TRUE when a name is known
InitialState ==
    [phase          |-> IF isOnline THEN "WAITING_FOR_OPPONENT" ELSE "SETUP_P1",
     player1Secret  |-> << >>,
     player2Secret  |-> << >>,
     player1History |-> << >>,
     player2History |-> << >>,
     winner         |-> "null",
     opponentName   |-> isSinglePlayer]

\* a GuessResult (the timestamp is not modelled)
GuessResult(guess, result) == [guess |-> guess, on |-> result.on, order |-> result.order]

NoMsg == [type |-> "NONE", from |-> "NONE"]
NoOp == [op |-> "init", by |-> "HOST", arg |-> << >>]
Op(name, p, arg) == [op |-> name, by |-> p, arg |-> arg]

\* the strings typed into a submission: every valid sequence, and one
\* invalid string for each rule (wrong length, non-digit, repeated digit)
BadInputs == {<<0>>, <<0, NonDigit>>, <<0, 0>>}
Inputs == RepeatFree(Digits, N) \cup BadInputs

isSetup(p) == gs[p].phase \in {"SETUP_P1", "SETUP_P2"}

isMyTurn(p) ==
    IF gs[p].phase = "GAME_OVER" THEN FALSE
    ELSE IF isAiThinking THEN FALSE
    ELSE IF isOnline
    THEN \/ isPlayer1(p) /\ gs[p].phase = "TURN_P1"
         \/ ~isPlayer1(p) /\ gs[p].phase = "TURN_P2"
    ELSE IF isSinglePlayer THEN gs[p].phase = "TURN_P1"
    ELSE gs[p].phase \in {"TURN_P1", "TURN_P2"}

canInteract(p) ==
    IF gs[p].phase = "GAME_OVER" THEN FALSE
    ELSE IF isOnline
    THEN IF gs[p].phase = "WAITING_FOR_OPPONENT" THEN FALSE
         ELSE \/ isPlayer1(p) /\ gs[p].phase \in {"SETUP_P1", "TURN_P1"}
              \/ ~isPlayer1(p) /\ gs[p].phase \in {"SETUP_P2", "TURN_P2"}
    ELSE ~isAiThinking

\* the key pad's SUBMIT reaches a handler: the pad is rendered (not in the
\* lobby, not at GAME_OVER), not disabled, and not covered by the hand-off
\* modal of a local match
KeypadEnabled(p) ==
    /\ p \in Screens
    /\ canInteract(p)
    /\ gs[p].phase # "GAME_OVER"
    /\ ~(isOnline /\ gs[p].phase = "WAITING_FOR_OPPONENT")
    /\ ~(gs[p].phase = "TRANSITION" /\ ~isOnline)

\* the stored session: the GameState object and its optional field timeLeft,
\* which only handlePause writes (NoTime: the field is absent)
NoTime == 0 - 1
Stored(state, t) == [exists |-> TRUE, state |-> state, timeLeft |-> t]
\* clearActiveSession(): the key is removed
NoSession == [exists |-> FALSE, state |-> InitialState, timeLeft |-> NoTime]

\* a foreign message is in the slot (the adapter drops lastMessage.from = userId)
Foreign(m, p) == m.type # "NONE" /\ m.from # p

\* setGameState(new) at p, the effects that follow the render, and the one
\* message (NoMsg for none) the handler sent:
\*  - "Reset timer when turn changes": phase or a history length changed
\*  - the network effect depends on gameState.phase: a phase change
\*    re-creates the NetworkAdapter, whose new listener is called with the
\*    current lastMessage, and re-captures gameState in its closure
\*  - delivered: the step is p's listener consuming the slot
\*  - NetworkAdapter.send is set(lastMessage): the message that was in the
\*    slot is gone, whether or not the listener it was meant for was called
\*  - the Persistence Effect runs after every change of gameState and stores
\*    the new object; a clearActiveSession() inside the handler is
\*    overwritten by it.  field is the timeLeft field of the new object.
CommitWith(p, new, msg, delivered, field) ==
    LET phaseChanged == new.phase # gs[p].phase
        movesChanged == \/ Len(new.player1History) # Len(gs[p].player1History)
                        \/ Len(new.player2History) # Len(gs[p].player2History)
        seen1 == IF delivered THEN [seen EXCEPT ![p] = TRUE] ELSE seen
    IN  /\ gs' = [gs EXCEPT ![p] = new]
        /\ timeLeft' = [timeLeft EXCEPT ![p] =
                           IF phaseChanged \/ movesChanged THEN TimeLimit ELSE @]
        /\ snap' = IF phaseChanged THEN [snap EXCEPT ![p] = new] ELSE snap
        /\ slot' = IF msg = NoMsg THEN slot ELSE msg
        /\ seen' = IF msg # NoMsg THEN [q \in Peers |-> q = p]
                   ELSE IF phaseChanged /\ isOnline
                   THEN [seen1 EXCEPT ![p] = ~Foreign(slot, p)]
                   ELSE seen1
        /\ lost' = (lost \/ (msg # NoMsg /\ \E q \in Peers :
                                                Foreign(slot, q) /\ ~seen[q]))
        /\ session' = [session EXCEPT ![p] = Stored(new, field)]

\* the updaters that spread prev keep the timeLeft field the object has
Commit(p, new, msg, delivered) ==
    CommitWith(p, new, msg, delivered, session[p].timeLeft)

-----------------------------------------------------------------------------
(* The handlers of GameScreen.tsx as functions of the previous state       *)

\* variant: the single-player branch hands the device over like the
\* two-player branch and generates no CPU secret
submitSecretLocalWithHandoff(prev, secret, p2) ==
    IF prev.phase = "SETUP_P1"
    THEN [prev EXCEPT !.player1Secret = secret, !.phase = "TRANSITION"]
    ELSE IF prev.phase = "SETUP_P2"
    THEN [prev EXCEPT !.player2Secret = secret, !.phase = "TRANSITION"]
    ELSE prev

\* submitSecret, the updater of the local branch; p2 is the secret that
\* generateRandomSecret returned for the CPU
submitSecretLocal(prev, secret, p2) ==
    IF prev.phase = "SETUP_P1"
    THEN IF isSinglePlayer
         THEN [prev EXCEPT !.player1Secret = secret, !.player2Secret = p2,
                           !.phase = "TURN_P1"]
         ELSE [prev EXCEPT !.player1Secret = secret, !.phase = "TRANSITION"]
    ELSE IF prev.phase = "SETUP_P2"
    THEN [prev EXCEPT !.player2Secret = secret, !.phase = "TRANSITION"]
    ELSE prev

\* submitSecret, the updater of the online branch: the phase is not touched
submitSecretOnline(prev, p, secret) ==
    [prev EXCEPT !.player1Secret = IF isPlayer1(p) THEN secret ELSE @,
                 !.player2Secret = IF ~isPlayer1(p) THEN secret ELSE @]

\* variant: after the secrets are set the hand-off always returns the
\* device to player 1
handleTransitionToPlayer1(prev) ==
    IF prev.player2Secret = << >>
    THEN [prev EXCEPT !.phase = "SETUP_P2"]
    ELSE [prev EXCEPT !.phase = "TURN_P1"]

handleTransition(prev) ==
    IF prev.player2Secret = << >>
    THEN [prev EXCEPT !.phase = "SETUP_P2"]
    ELSE IF /\ prev.phase = "TRANSITION"
            /\ Len(prev.player1History) = 0
            /\ Len(prev.player2History) = 0
    THEN [prev EXCEPT !.phase = "TURN_P1"]
    ELSE IF Len(prev.player1History) = Len(prev.player2History)
    THEN [prev EXCEPT !.phase = "TURN_P1"]
    ELSE [prev EXCEPT !.phase = "TURN_P2"]

\* the win test of every branch: result.on === n && result.order === n
IsWin(result) == result.on = N /\ result.order = N

\* variant: the winner is taken from the receiver's side of the table
submitGuessOnlineWinnerSwapped(prev, p, guessToSubmit) ==
    LET targetSecret == IF isPlayer1(p) THEN prev.player2Secret ELSE prev.player1Secret
        result == computeOnAndOrder(targetSecret, guessToSubmit)
        guessResult == GuessResult(guessToSubmit, result)
        newHistory == IF isPlayer1(p) THEN Append(prev.player1History, guessResult)
                      ELSE Append(prev.player2History, guessResult)
    IN  [prev EXCEPT
           !.player1History = IF isPlayer1(p) THEN newHistory ELSE @,
           !.player2History = IF ~isPlayer1(p) THEN newHistory ELSE @,
           !.phase = IF IsWin(result) THEN "GAME_OVER"
                     ELSE IF isPlayer1(p) THEN "TURN_P2" ELSE "TURN_P1",
           !.winner = IF IsWin(result)
                      THEN (IF isPlayer1(p) THEN "player2" ELSE "player1")
                      ELSE "null"]

\* submitGuess, the updater of the online branch (optimistic update)
submitGuessOnline(prev, p, guessToSubmit) ==
    LET targetSecret == IF isPlayer1(p) THEN prev.player2Secret ELSE prev.player1Secret
        result == computeOnAndOrder(targetSecret, guessToSubmit)
        guessResult == GuessResult(guessToSubmit, result)
        newHistory == IF isPlayer1(p) THEN Append(prev.player1History, guessResult)
                      ELSE Append(prev.player2History, guessResult)
    IN  [prev EXCEPT
           !.player1History = IF isPlayer1(p) THEN newHistory ELSE @,
           !.player2History = IF ~isPlayer1(p) THEN newHistory ELSE @,
           !.phase = IF IsWin(result) THEN "GAME_OVER"
                     ELSE IF isPlayer1(p) THEN "TURN_P2" ELSE "TURN_P1",
           !.winner = IF IsWin(result)
                      THEN (IF isPlayer1(p) THEN "player1" ELSE "player2")
                      ELSE "null"]

\* submitGuess, the updater of the local branch
submitGuessLocal(prev, guessToSubmit) ==
    LET isP1 == prev.phase = "TURN_P1"
        targetSecret == IF isP1 THEN prev.player2Secret ELSE prev.player1Secret
        result == computeOnAndOrder(targetSecret, guessToSubmit)
        guessResult == GuessResult(guessToSubmit, result)
        newHistory == IF isP1 THEN Append(prev.player1History, guessResult)
                      ELSE Append(prev.player2History, guessResult)
    IN  IF IsWin(result)
        THEN [prev EXCEPT !.player1History = IF isP1 THEN newHistory ELSE @,
                          !.player2History = IF ~isP1 THEN newHistory ELSE @,
                          !.phase = "GAME_OVER",
                          !.winner = IF isP1 THEN "player1" ELSE "player2"]
        ELSE IF isSinglePlayer
        THEN [prev EXCEPT !.player1History = newHistory]
        ELSE [prev EXCEPT !.player1History = IF isP1 THEN newHistory ELSE @,
                          !.player2History = IF ~isP1 THEN newHistory ELSE @,
                          !.phase = "TRANSITION"]

\* the setTimeout callback of triggerAiTurn, with the guess the generator drew
aiTurn(prev, aiGuess) ==
    IF prev.phase = "GAME_OVER" THEN prev
    ELSE LET result == computeOnAndOrder(prev.player1Secret, aiGuess)
             guessResult == GuessResult(aiGuess, result)
         IN  [prev EXCEPT
                !.player2History = Append(prev.player2History, guessResult),
                !.phase = IF IsWin(result) THEN "GAME_OVER" ELSE @,
                !.winner = IF IsWin(result) THEN "player2" ELSE @]

\* handleTimeout: the fallback guess is the last guess of "my" history,
\* else a generated one
fallbackGuesses(prev, p) ==
    LET myHistory == IF isPlayer1(p) THEN prev.player1History ELSE prev.player2History
    IN  IF Len(myHistory) > 0 THEN {myHistory[Len(myHistory)].guess}
        ELSE generateRandomSecret(Digits, N)

handlePlayAgain(prev) ==
    IF isOnline
    THEN [prev EXCEPT !.phase = "WAITING_FOR_OPPONENT",
                      !.player1Secret = << >>, !.player2Secret = << >>,
                      !.player1History = << >>, !.player2History = << >>,
                      !.winner = "null", !.opponentName = FALSE]
    ELSE [prev EXCEPT !.phase = "SETUP_P1",
                      !.player1Secret = << >>, !.player2Secret = << >>,
                      !.player1History = << >>, !.player2History = << >>,
                      !.winner = "null"]

\* saveHistory(winner, finalState) on the device of p: the MatchRecord given
\* to saveMatchRecord (winner string and rounds; id, timestamp, mode and n
\* do not depend on the play).  The strings are the names of the variables
\* that hold them.
saveHistory(winner, finalState, p) ==
    [winner |-> IF isSinglePlayer
                THEN (IF winner = "player1" THEN "Me" ELSE "CPU")
                ELSE IF ~isOnline
                THEN (IF winner = "player1" THEN "username" ELSE "p2Name")
                ELSE IF winner = "player2"
                THEN (IF ~isPlayer1(p) THEN "Me" ELSE "oppName")
                ELSE IF winner = "player1"
                THEN (IF isPlayer1(p) THEN "Me" ELSE "oppName")
                ELSE "Draw",
     rounds |-> IF Len(finalState.player1History) >= Len(finalState.player2History)
                THEN Len(finalState.player1History)
                ELSE Len(finalState.player2History)]

-----------------------------------------------------------------------------
(* handleNetworkMessage: the messages and the updaters of each case        *)

SecretSetMsg(p, secret) ==
    [type |-> "SECRET_SET", from |-> p, secret |-> secret, isPlayer1 |-> isPlayer1(p)]
GuessMadeMsg(p, guess) ==
    [type |-> "GUESS_MADE", from |-> p, guess |-> guess, isPlayer1 |-> isPlayer1(p)]
SyncRequestMsg(p) == [type |-> "SYNC_REQUEST", from |-> p]
PlayerJoinedMsg(p) == [type |-> "PLAYER_JOINED", from |-> p]
GameStartConfigMsg(p) == [type |-> "GAME_START_CONFIG", from |-> p]
\* built from the gameState of the closure; opponentName and hostName are
\* TRUE when the field is defined
SyncResponseMsg(p, state) ==
    [type |-> "SYNC_RESPONSE", from |-> p,
     phase |-> state.phase,
     p1Secret |-> state.player1Secret, p2Secret |-> state.player2Secret,
     p1History |-> state.player1History, p2History |-> state.player2History,
     opponentName |-> IF isHost(p) THEN state.opponentName ELSE TRUE,
     hostName |-> isHost(p)]

\* case 'SYNC_RESPONSE'
onSyncResponse(prev, p, remote) ==
    IF /\ ~isHost(p)
       /\ prev.phase = "WAITING_FOR_OPPONENT"
       /\ remote.phase # "WAITING_FOR_OPPONENT"
    THEN [prev EXCEPT !.phase = "SETUP_P2",
                      !.opponentName = remote.hostName \/ @]
    ELSE
    LET newP1History == IF Len(remote.p1History) > Len(prev.player1History)
                        THEN remote.p1History ELSE prev.player1History
        newP2History == IF Len(remote.p2History) > Len(prev.player2History)
                        THEN remote.p2History ELSE prev.player2History
        newP1Secret == IF prev.player1Secret # << >> THEN prev.player1Secret
                       ELSE remote.p1Secret
        newP2Secret == IF prev.player2Secret # << >> THEN prev.player2Secret
                       ELSE remote.p2Secret
        newPhase ==
            IF /\ prev.phase = "WAITING_FOR_OPPONENT"
               /\ remote.phase # "WAITING_FOR_OPPONENT"
            THEN (IF isHost(p) THEN "SETUP_P1" ELSE "SETUP_P2")
            ELSE IF /\ newP1Secret # << >>
                    /\ newP2Secret # << >>
                    /\ prev.phase # "GAME_OVER"
            THEN (IF Len(newP1History) = Len(newP2History)
                  THEN "TURN_P1" ELSE "TURN_P2")
            ELSE prev.phase
    IN  [prev EXCEPT !.player1Secret = newP1Secret,
                     !.player2Secret = newP2Secret,
                     !.player1History = newP1History,
                     !.player2History = newP2History,
                     !.phase = newPhase,
                     !.opponentName = \/ remote.opponentName
                                      \/ (remote.hostName /\ ~isHost(p))
                                      \/ @]

\* case 'SECRET_SET'
onSecretSet(prev, p, newSecret) ==
    LET isOpponentP1 == ~isPlayer1(p)
        p1Secret == IF isPlayer1(p) THEN prev.player1Secret
                    ELSE IF isOpponentP1 THEN newSecret ELSE prev.player1Secret
        p2Secret == IF ~isPlayer1(p) THEN prev.player2Secret
                    ELSE IF ~isOpponentP1 THEN newSecret ELSE prev.player2Secret
    IN  [prev EXCEPT !.player1Secret = p1Secret,
                     !.player2Secret = p2Secret,
                     !.phase = IF p1Secret # << >> /\ p2Secret # << >>
                               THEN "TURN_P1" ELSE @]

\* case 'GUESS_MADE'
onGuessMade(prev, p, guess, isOpponentP1) ==
    LET targetSecret == IF isPlayer1(p) THEN prev.player1Secret ELSE prev.player2Secret
        result == computeOnAndOrder(targetSecret, guess)
        guessResult == GuessResult(guess, result)
        newHistory == IF isOpponentP1 THEN Append(prev.player1History, guessResult)
                      ELSE Append(prev.player2History, guessResult)
    IN  [prev EXCEPT
           !.player1History = IF isOpponentP1 THEN newHistory ELSE @,
           !.player2History = IF ~isPlayer1(p) THEN newHistory ELSE @,
           !.phase = IF IsWin(result) THEN "GAME_OVER"
                     ELSE IF isOpponentP1 THEN "TURN_P2" ELSE "TURN_P1",
           !.winner = IF IsWin(result)
                      THEN (IF isPlayer1(p) THEN "player1" ELSE "player2")
                      ELSE "null"]

-----------------------------------------------------------------------------
(* The pure-function harness: a call is drawn at Init and applied once     *)

NoOut == [none |-> TRUE]
Idle == [fn |-> "idle", secret |-> << >>, guess |-> << >>, n |-> 0,
         done |-> FALSE, out |-> NoOut]

\* TEST_VECTORS of constants.ts (secret, guess, expectedOn, expectedOrder)
TEST_VECTORS ==
    {[n |-> 4, secret |-> <<4, 7, 2, 5>>, guess |-> <<2, 4, 7, 5>>, expectedOn |-> 4, expectedOrder |-> 1],
     [n |-> 4, secret |-> <<1, 2, 3, 4>>, guess |-> <<4, 3, 2, 1>>, expectedOn |-> 4, expectedOrder |-> 0],
     [n |-> 4, secret |-> <<9, 8, 7, 6>>, guess |-> <<9, 8, 7, 6>>, expectedOn |-> 4, expectedOrder |-> 4],
     [n |-> 3, secret |-> <<5, 8, 2>>, guess |-> <<5, 2, 8>>, expectedOn |-> 3, expectedOrder |-> 1],
     [n |-> 2, secret |-> <<4, 5>>, guess |-> <<5, 4>>, expectedOn |-> 2, expectedOrder |-> 0]}

ScoreCall(s, g, n) ==
    [fn |-> "score", secret |-> s, guess |-> g, n |-> n, done |-> FALSE, out |-> NoOut]
ValidateCall(x, n) ==
    [fn |-> "validate", secret |-> x, guess |-> << >>, n |-> n, done |-> FALSE, out |-> NoOut]

ScoreCalls ==
    UNION {{ScoreCall(s, g, n) : s \in RepeatFree(PureDigits, n),
                                 g \in RepeatFree(PureDigits, n)} : n \in Ns}
    \cup {ScoreCall(v.secret, v.guess, v.n) : v \in TEST_VECTORS}

ValidateCalls ==
    {ValidateCall(x, n) : x \in StringsUpTo(PureDigits \cup {NonDigit}, MaxStrLen),
                          n \in Ns}

ApplyScore ==
    /\ pure.fn = "score" /\ ~pure.done
    /\ pure' = [pure EXCEPT !.done = TRUE,
                            !.out = computeOnAndOrder(pure.secret, pure.guess)]
    /\ UNCHANGED <<gameVars, join>>

ApplyValidate ==
    /\ pure.fn = "validate" /\ ~pure.done
    /\ pure' = [pure EXCEPT !.done = TRUE,
                            !.out = validateSequence(pure.secret, pure.n)]
    /\ UNCHANGED <<gameVars, join>>

\* the record a guess g leaves in a history when the secret is s
RecordOf(s, g) == GuessResult(g, computeOnAndOrder(s, g))

\* histories handed to getCpuPerfectGuess: the empty one, every history of
\* 1..MaxHist guesses scored against one secret, and every single record
\* with an arbitrary (on, order)
RECURSIVE HistoriesAgainst(_, _, _)
HistoriesAgainst(s, n, k) ==
    IF k = 0 THEN {<< >>}
    ELSE LET shorter == HistoriesAgainst(s, n, k - 1)
         IN  shorter \cup {Append(h, RecordOf(s, g)) :
                              h \in {x \in shorter : Len(x) = k - 1},
                              g \in RepeatFree(PureDigits, n)}

SolveHistories(n) ==
    UNION {HistoriesAgainst(s, n, MaxHist) : s \in RepeatFree(PureDigits, n)}
    \cup {<<[guess |-> g, on |-> on, order |-> order]>> :
             g \in RepeatFree(PureDigits, n), on \in 0..n, order \in 0..n}

SolveCall(n, history) ==
    [fn |-> "solve", secret |-> << >>, guess |-> << >>, n |-> n,
     history |-> history, done |-> FALSE, out |-> NoOut]

SolveCalls == UNION {{SolveCall(n, h) : h \in SolveHistories(n)} : n \in Ns}

GenerateCall(n) ==
    [fn |-> "generate", secret |-> << >>, guess |-> << >>, n |-> n,
     done |-> FALSE, out |-> NoOut]

GenerateCalls == {GenerateCall(n) : n \in Ns}

ApplyGenerate ==
    /\ pure.fn = "generate" /\ ~pure.done
    /\ \E secret \in generateRandomSecret(PureDigits, pure.n) :
          pure' = [pure EXCEPT !.done = TRUE, !.out = secret]
    /\ UNCHANGED <<gameVars, join>>

ApplySolve ==
    /\ pure.fn = "solve" /\ ~pure.done
    /\ \E p \in getCpuPerfectGuess(PureDigits, pure.n, pure.history) :
          pure' = [pure EXCEPT !.done = TRUE, !.out = p]
    /\ UNCHANGED <<gameVars, join>>

-----------------------------------------------------------------------------
(* The operations of a GameScreen instance                                 *)

warmupComplete(p) ==
    Len(gs[p].player1History) > 0 /\ Len(gs[p].player2History) > 0

WithinBound(state) ==
    Len(state.player1History) <= MaxHist /\ Len(state.player2History) <= MaxHist

\* submitSecret with an input that validateSequence rejects: alert, return
SubmitSecretInvalid(p, secret) ==
    /\ KeypadEnabled(p) /\ isSetup(p)
    /\ ~validateSequence(secret, N).valid
    /\ lastOp' = Op("submitSecret", p, secret)
    /\ UNCHANGED <<pure, join, screen, session, mode, gs, timeLeft, isAiThinking, slot, seen, snap, used, lost>>

SubmitSecretOnline(p, secret) ==
    /\ KeypadEnabled(p) /\ isSetup(p)
    /\ validateSequence(secret, N).valid
    /\ isOnline
    /\ Commit(p, submitSecretOnline(gs[p], p, secret), SecretSetMsg(p, secret), FALSE)
    /\ lastOp' = Op("submitSecret", p, secret)
    /\ UNCHANGED <<pure, join, screen, mode, isAiThinking, used>>

SubmitSecretLocal(p, secret) ==
    /\ KeypadEnabled(p) /\ isSetup(p)
    /\ validateSequence(secret, N).valid
    /\ ~isOnline
    \* generateRandomSecret runs in the single-player branch only
    /\ \E p2 \in IF isSinglePlayer THEN generateRandomSecret(Digits, N) ELSE {<< >>} :
          Commit(p, submitSecretLocal(gs[p], secret, p2), NoMsg, FALSE)
    /\ lastOp' = Op("submitSecret", p, secret)
    /\ UNCHANGED <<pure, join, screen, mode, isAiThinking, used>>

\* variant: the CPU turn is triggered before the validation returns
SubmitGuessInvalidStartsAi(p, guess) ==
    /\ KeypadEnabled(p) /\ ~isSetup(p)
    /\ ~validateSequence(guess, N).valid
    /\ isAiThinking' = isSinglePlayer
    /\ lastOp' = Op("submitGuess", p, guess)
    /\ UNCHANGED <<pure, join, screen, session, mode, gs, timeLeft, slot, seen, snap, used, lost>>

\* submitGuess() from the key pad with an input that validateSequence rejects
SubmitGuessInvalid(p, guess) ==
    /\ KeypadEnabled(p) /\ ~isSetup(p)
    /\ ~validateSequence(guess, N).valid
    /\ lastOp' = Op("submitGuess", p, guess)
    /\ UNCHANGED <<pure, join, screen, session, mode, gs, timeLeft, isAiThinking, slot, seen, snap, used, lost>>

\* the body of submitGuess after validation; op names the caller
AcceptGuess(p, guess, op) ==
    /\ validateSequence(guess, N).valid
    /\ LET new == IF isOnline THEN submitGuessOnline(gs[p], p, guess)
                  ELSE submitGuessLocal(gs[p], guess)
       IN  /\ WithinBound(new)
           /\ Commit(p, new, IF isOnline THEN GuessMadeMsg(p, guess) ELSE NoMsg, FALSE)
    \* if (isSinglePlayer) triggerAiTurn(): setIsAiThinking(true)
    /\ isAiThinking' = IF isSinglePlayer THEN TRUE ELSE isAiThinking
    /\ lastOp' = Op(op, p, guess)
    /\ UNCHANGED <<pure, join, screen, mode, used>>

SubmitGuessOnline(p, guess) ==
    /\ KeypadEnabled(p) /\ ~isSetup(p)
    /\ isOnline
    /\ AcceptGuess(p, guess, "submitGuess")

SubmitGuessLocal(p, guess) ==
    /\ KeypadEnabled(p) /\ ~isSetup(p)
    /\ ~isOnline
    /\ AcceptGuess(p, guess, "submitGuess")

\* the 1 Hz interval of the Countdown effect, while more than a second is left
Tick(p) ==
    /\ p \in Screens
    /\ isMyTurn(p) /\ warmupComplete(p)
    /\ timeLeft[p] > 1
    /\ timeLeft' = [timeLeft EXCEPT ![p] = @ - 1]
    /\ lastOp' = Op("tick", p, << >>)
    /\ UNCHANGED <<pure, join, screen, session, mode, gs, isAiThinking, slot, seen, snap, used, lost>>

\* the interval at prev <= 1: handleTimeout() submits the fallback guess
Timeout(p) ==
    /\ p \in Screens
    /\ isMyTurn(p) /\ warmupComplete(p)
    /\ timeLeft[p] <= 1
    /\ \E guess \in fallbackGuesses(gs[p], p) : AcceptGuess(p, guess, "timeout")

\* the setTimeout callback of triggerAiTurn
AiTurn ==
    /\ isAiThinking
    /\ \E aiGuess \in generateRandomSecret(Digits, N) :
          LET new == aiTurn(gs["HOST"], aiGuess)
          IN  /\ WithinBound(new)
              /\ Commit("HOST", new, NoMsg, FALSE)
              /\ lastOp' = Op("aiTurn", "HOST",
                              IF gs["HOST"].phase = "GAME_OVER" THEN << >> ELSE aiGuess)
    /\ isAiThinking' = FALSE
    /\ UNCHANGED <<pure, join, screen, mode, used>>

\* "I AM READY" on the hand-off modal (local two-player)
Transition ==
    /\ ~isOnline /\ "HOST" \in Screens
    /\ gs["HOST"].phase = "TRANSITION"
    /\ Commit("HOST", handleTransition(gs["HOST"]), NoMsg, FALSE)
    /\ lastOp' = Op("transition", "HOST", << >>)
    /\ UNCHANGED <<pure, join, screen, mode, isAiThinking, used>>

\* "PLAY AGAIN" on the game-over modal
PlayAgain(p) ==
    /\ p \in Screens
    /\ gs[p].phase = "GAME_OVER"
    /\ isOnline => used.restart < MaxRestart
    /\ used' = [used EXCEPT !.restart = IF isOnline THEN @ + 1 ELSE @]
    \* both branches set timeLeft: config.timeLimit in the new object
    /\ CommitWith(p, handlePlayAgain(gs[p]), NoMsg, FALSE, TimeLimit)
    /\ lastOp' = Op("playAgain", p, << >>)
    /\ UNCHANGED <<pure, join, screen, mode, isAiThinking>>

\* "START GAME" in the host's lobby (disabled until opponentName is known)
HostStartGame ==
    /\ isOnline /\ "HOST" \in Screens
    /\ gs["HOST"].phase = "WAITING_FOR_OPPONENT"
    /\ gs["HOST"].opponentName
    /\ Commit("HOST", [gs["HOST"] EXCEPT !.phase = "SETUP_P1"],
              GameStartConfigMsg("HOST"), FALSE)
    /\ lastOp' = Op("hostStart", "HOST", << >>)
    /\ UNCHANGED <<pure, join, screen, mode, isAiThinking, used>>

\* a send of the 2 s handshake interval (phase WAITING_FOR_OPPONENT), or of
\* the REFRESH button (any phase, counted against MaxRefresh)
Refresh(p) ==
    IF gs[p].phase = "WAITING_FOR_OPPONENT" THEN UNCHANGED used
    ELSE /\ used.refresh < MaxRefresh
         /\ used' = [used EXCEPT !.refresh = @ + 1]

\* net.send('SYNC_REQUEST'): the 2 s handshake interval while waiting, and
\* the REFRESH button at any time
SendSyncRequest(p) ==
    /\ isOnline /\ p \in Screens
    /\ Refresh(p)
    /\ Commit(p, gs[p], SyncRequestMsg(p), FALSE)
    /\ lastOp' = Op("sendSyncRequest", p, << >>)
    /\ UNCHANGED <<pure, join, screen, mode, isAiThinking>>

\* net.send('PLAYER_JOINED') of the guest: same interval, same button
SendPlayerJoined(p) ==
    /\ isOnline /\ ~isHost(p) /\ p \in Screens
    /\ Refresh(p)
    /\ Commit(p, gs[p], PlayerJoinedMsg(p), FALSE)
    /\ lastOp' = Op("sendPlayerJoined", p, << >>)
    /\ UNCHANGED <<pure, join, screen, mode, isAiThinking>>

-----------------------------------------------------------------------------
(* Leaving and entering the game screen (GameScreen.tsx handleMainAction,  *)
(* App = src/unnamed/part_018).  Unmounting discards the component state:  *)
(* isAiThinking is false in the next instance and the setState calls of a  *)
(* pending CPU callback are dropped.                                       *)

\* PAUSE, the main action of a local match that is not over: handlePause
Pause(p) ==
    /\ p \in Screens
    /\ ~isOnline /\ gs[p].phase # "GAME_OVER"
    /\ session' = [session EXCEPT ![p] = Stored(gs[p], timeLeft[p])]
    /\ screen' = [screen EXCEPT ![p] = "home"]
    /\ isAiThinking' = FALSE
    /\ lastOp' = Op("pause", p, << >>)
    /\ UNCHANGED <<pure, join, mode, gs, timeLeft, slot, seen, snap, used, lost>>

\* EXIT at GAME_OVER (the main action and EXIT TO MENU of the game-over
\* views): handleExit.  The EXIT of an online match that is not over
\* abandons the match; the matches followed here are played to their end.
Exit(p) ==
    /\ p \in Screens
    /\ gs[p].phase = "GAME_OVER"
    /\ session' = [session EXCEPT ![p] = NoSession]
    /\ screen' = [screen EXCEPT ![p] = "home"]
    /\ isAiThinking' = FALSE
    /\ lastOp' = Op("exit", p, << >>)
    /\ UNCHANGED <<pure, join, mode, gs, timeLeft, slot, seen, snap, used, lost>>

\* RESUME on the home screen (shown while hasActiveGame): handleResumeGame,
\* then the useState initialisers of the new GameScreen load the session
Resume(p) ==
    /\ ~isOnline /\ p = "HOST"
    /\ screen[p] = "home"
    /\ session[p].exists
    /\ screen' = [screen EXCEPT ![p] = "game"]
    /\ gs' = [gs EXCEPT ![p] = session[p].state]
    /\ timeLeft' = [timeLeft EXCEPT ![p] =
                       IF session[p].timeLeft # NoTime THEN session[p].timeLeft
                       ELSE TimeLimit]
    /\ isAiThinking' = FALSE
    /\ lastOp' = Op("resume", p, << >>)
    /\ UNCHANGED <<pure, join, mode, session, slot, seen, snap, used, lost>>

\* a new match from the home screen: handleStartGame clears the session and
\* mounts a GameScreen with the chosen config (a new online match is a
\* match of its own, with a guest of its own)
StartGame(m) ==
    /\ ~isOnline
    /\ screen["HOST"] = "home"
    /\ mode' = m
    /\ gs' = [p \in Peers |-> InitialState]'
    /\ timeLeft' = [p \in Peers |-> TimeLimit]
    /\ isAiThinking' = FALSE
    /\ slot' = NoMsg
    /\ seen' = [p \in Peers |-> TRUE]
    /\ snap' = gs'
    /\ used' = [restart |-> 0, refresh |-> 0]
    /\ lost' = FALSE
    /\ screen' = [p \in Peers |-> "game"]
    /\ session' = [p \in Peers |-> Stored(gs'[p], NoTime)]
    /\ lastOp' = Op("startGame", "HOST", << >>)
    /\ UNCHANGED <<pure, join>>

-----------------------------------------------------------------------------
(* The listener of the NetworkAdapter calls handleNetworkMessage with the  *)
(* slot's message when it is from the other peer.  The 60 s staleness      *)
(* window of the adapter only ever suppresses a call; a delivery that      *)
(* never happens is a behaviour of this model already.                     *)

Deliverable(p, type) ==
    /\ isOnline /\ p \in Screens
    /\ ~seen[p]
    /\ Foreign(slot, p)
    /\ slot.type = type

\* case 'SYNC_REQUEST': answered from the closure's gameState
RecvSyncRequest(p) ==
    /\ Deliverable(p, "SYNC_REQUEST")
    /\ IF isHost(p) \/ snap[p].phase # "WAITING_FOR_OPPONENT"
       THEN Commit(p, gs[p], SyncResponseMsg(p, snap[p]), TRUE)
       ELSE Commit(p, gs[p], NoMsg, TRUE)
    /\ lastOp' = Op("recvSyncRequest", p, << >>)
    /\ UNCHANGED <<pure, join, screen, mode, isAiThinking, used>>

RecvSyncResponse(p) ==
    /\ Deliverable(p, "SYNC_RESPONSE")
    /\ Commit(p, onSyncResponse(gs[p], p, slot), NoMsg, TRUE)
    /\ lastOp' = Op("recvSyncResponse", p, << >>)
    /\ UNCHANGED <<pure, join, screen, mode, isAiThinking, used>>

\* case 'PLAYER_JOINED': the guard reads the closure's phase
RecvPlayerJoined(p) ==
    /\ Deliverable(p, "PLAYER_JOINED")
    /\ Commit(p, IF isHost(p) /\ snap[p].phase = "WAITING_FOR_OPPONENT"
                 THEN [gs[p] EXCEPT !.opponentName = TRUE] ELSE gs[p],
              NoMsg, TRUE)
    /\ lastOp' = Op("recvPlayerJoined", p, << >>)
    /\ UNCHANGED <<pure, join, screen, mode, isAiThinking, used>>

\* case 'GAME_START_CONFIG': the guard reads the closure's phase
RecvGameStartConfig(p) ==
    /\ Deliverable(p, "GAME_START_CONFIG")
    /\ Commit(p, IF ~isHost(p) /\ snap[p].phase = "WAITING_FOR_OPPONENT"
                 THEN [gs[p] EXCEPT !.phase = "SETUP_P2", !.opponentName = TRUE]
                 ELSE gs[p],
              NoMsg, TRUE)
    /\ lastOp' = Op("recvGameStartConfig", p, << >>)
    /\ UNCHANGED <<pure, join, screen, mode, isAiThinking, used>>

RecvSecretSet(p) ==
    /\ Deliverable(p, "SECRET_SET")
    /\ Commit(p, onSecretSet(gs[p], p, slot.secret), NoMsg, TRUE)
    /\ lastOp' = Op("recvSecretSet", p, slot.secret)
    /\ UNCHANGED <<pure, join, screen, mode, isAiThinking, used>>

RecvGuessMade(p) ==
    /\ Deliverable(p, "GUESS_MADE")
    /\ LET new == onGuessMade(gs[p], p, slot.guess, slot.isPlayer1)
       IN  /\ WithinBound(new)
           /\ Commit(p, new, NoMsg, TRUE)
    /\ lastOp' = Op("recvGuessMade", p, slot.guess)
    /\ UNCHANGED <<pure, join, screen, mode, isAiThinking, used>>

-----------------------------------------------------------------------------
(* Specifications                                                          *)

GameInit ==
    /\ mode \in Modes
    /\ gs = [p \in Peers |-> InitialState]
    /\ timeLeft = [p \in Peers |-> TimeLimit]
    /\ isAiThinking = FALSE
    /\ slot = NoMsg
    /\ seen = [p \in Peers |-> TRUE]
    /\ snap = [p \in Peers |-> InitialState]
    /\ used = [restart |-> 0, refresh |-> 0]
    /\ lost = FALSE
    /\ screen = [p \in Peers |-> "game"]
    /\ session = [p \in Peers |-> Stored(InitialState, NoTime)]
    /\ lastOp = NoOp

Init ==
    /\ pure = Idle
    /\ join = JoinStart
    /\ GameInit

Next ==
    \/ \E p \in Peers, s \in Inputs : SubmitSecretInvalid(p, s)
    \/ \E p \in Peers, s \in Inputs : SubmitSecretOnline(p, s)
    \/ \E p \in Peers, s \in Inputs : SubmitSecretLocal(p, s)
    \/ \E p \in Peers, g \in Inputs : SubmitGuessInvalid(p, g)
    \/ \E p \in Peers, g \in Inputs : SubmitGuessOnline(p, g)
    \/ \E p \in Peers, g \in Inputs : SubmitGuessLocal(p, g)
    \/ \E p \in Peers : Tick(p)
    \/ \E p \in Peers : Timeout(p)
    \/ AiTurn
    \/ Transition
    \/ \E p \in Peers : PlayAgain(p)
    \/ HostStartGame
    \/ \E p \in Peers : SendSyncRequest(p)
    \/ \E p \in Peers : SendPlayerJoined(p)
    \/ \E p \in Peers : RecvSyncRequest(p)
    \/ \E p \in Peers : RecvSyncResponse(p)
    \/ \E p \in Peers : RecvPlayerJoined(p)
    \/ \E p \in Peers : RecvGameStartConfig(p)
    \/ \E p \in Peers : RecvSecretSet(p)
    \/ \E p \in Peers : RecvGuessMade(p)

-----------------------------------------------------------------------------
(* joinMatchByCode (src/unnamed/part_013, the network module GameScreen    *)
(* and HomeScreen are written against): each await is a step of the call.  *)
(* join.pc[c] is the position of call c: "start", "gotCode" (the code      *)
(* snapshot exists), "committed" (result.committed), "removedCode",        *)
(* "returned" ({ matchId } was returned) or "failed" (an Error was thrown).*)

Abort == "abort"

\* the update function given to runTransaction, applied to the value of
\* lobby/<matchId>: returning null writes null and commits, returning
\* undefined aborts
joinUpdate(current) ==
    IF current = "none" THEN "none"
    ELSE IF current # "waiting_for_opponent" THEN Abort
    ELSE "playing"

\* const snapshot = await get(codeRef); if (!snapshot.exists()) throw
JoinGetCode(c) ==
    /\ join.pc[c] = "start"
    /\ join' = [join EXCEPT !.pc[c] = IF join.code THEN "gotCode" ELSE "failed"]
    /\ UNCHANGED <<pure, gameVars>>

\* const result = await runTransaction(...); if (!result.committed) throw.
\* The database applies the update function to the current value atomically.
JoinTransaction(c) ==
    /\ join.pc[c] = "gotCode"
    /\ LET result == joinUpdate(join.lobby)
       IN  join' = IF result = Abort
                   THEN [join EXCEPT !.pc[c] = "failed"]
                   ELSE [join EXCEPT !.pc[c] = "committed", !.lobby = result]
    /\ UNCHANGED <<pure, gameVars>>

\* await remove(codeRef)
JoinRemoveCode(c) ==
    /\ join.pc[c] = "committed"
    /\ join' = [join EXCEPT !.pc[c] = "removedCode", !.code = FALSE]
    /\ UNCHANGED <<pure, gameVars>>

\* await remove(ref(db, `lobby/${matchId}`)); return { matchId }
JoinRemoveLobby(c) ==
    /\ join.pc[c] = "removedCode"
    /\ join' = [join EXCEPT !.pc[c] = "returned", !.lobby = "none"]
    /\ UNCHANGED <<pure, gameVars>>

JoinInit ==
    /\ pure = Idle
    /\ join = JoinStart
    /\ GameInit
    /\ mode = "ONLINE"

JoinNext ==
    \E c \in Callers :
        \/ JoinGetCode(c)
        \/ JoinTransaction(c)
        \/ JoinRemoveCode(c)
        \/ JoinRemoveLobby(c)

\* concurrent calls of joinMatchByCode with the code of one hosted match
JoinSpec == JoinInit /\ [][JoinNext]_vars

-----------------------------------------------------------------------------
\* a match on a game screen that stays mounted
Spec == Init /\ [][Next]_vars

\* the same with the ways out of the game screen and back into it
SessionNext ==
    \/ Next
    \/ \E p \in Peers : Pause(p)
    \/ \E p \in Peers : Exit(p)
    \/ \E p \in Peers : Resume(p)
    \/ \E m \in Modes : StartGame(m)

SessionSpec == Init /\ [][SessionNext]_vars

\* the pure functions of gameLogic.ts applied to every input within the bounds
PureInit ==
    /\ pure \in ScoreCalls \cup ValidateCalls \cup SolveCalls \cup GenerateCalls
    /\ mode = "1P"
    /\ gs = [p \in Peers |-> InitialState]
    /\ timeLeft = [p \in Peers |-> TimeLimit]
    /\ isAiThinking = FALSE
    /\ slot = NoMsg
    /\ seen = [p \in Peers |-> TRUE]
    /\ snap = [p \in Peers |-> InitialState]
    /\ used = [restart |-> 0, refresh |-> 0]
    /\ lost = FALSE
    /\ screen = [p \in Peers |-> "game"]
    /\ session = [p \in Peers |-> Stored(InitialState, NoTime)]
    /\ join = JoinStart
    /\ lastOp = NoOp

PureNext == ApplyScore \/ ApplyValidate \/ ApplySolve \/ ApplyGenerate

PureSpec == PureInit /\ [][PureNext]_vars

-----------------------------------------------------------------------------
(* Properties of gameLogic.ts, checked under PureSpec                      *)

\* the score as spec.md section 4.2 defines it, by counting
ScoreByCounting(secret, guess) ==
    [on    |-> Cardinality(Range(secret) \cap Range(guess)),
     order |-> Cardinality({i \in 1..Len(secret) : secret[i] = guess[i]})]

\* the validity of spec.md section 4.1, stated position by position
IsValidSequence(x, n) ==
    /\ Len(x) = n
    /\ \A i \in 1..Len(x) : x[i] \in 0..9
    /\ \A i, j \in 1..Len(x) : i # j => x[i] # x[j]

\* C1: for two valid sequences of the same length, computeOnAndOrder returns
\* order = the number of positions holding the same digit and on = the number
\* of digits the two have in common; the five vectors of TEST_VECTORS come
\* out with their documented (on, order).
C1_ScoreIsCountOfCommonDigitsAndPositions ==
    (pure.fn = "score" /\ pure.done) =>
        /\ pure.out = ScoreByCounting(pure.secret, pure.guess)
        /\ \A v \in TEST_VECTORS :
              (pure.secret = v.secret /\ pure.guess = v.guess) =>
                  pure.out = [on |-> v.expectedOn, order |-> v.expectedOrder]

\* secret 4725 scored against guess 2475 has returned (4, 1)
C1_Witness ==
    /\ pure.fn = "score" /\ pure.done
    /\ pure.secret = <<4, 7, 2, 5>> /\ pure.guess = <<2, 4, 7, 5>>
    /\ pure.out = [on |-> 4, order |-> 1]

\* C2: validateSequence(x, n) is valid exactly when x has length n, holds
\* only the digits 0-9 and repeats none; every other input is reported
\* invalid with an error text, and the call changes no state of the game.
C2_ValidIffLengthDigitsDistinct ==
    (pure.fn = "validate" /\ pure.done) =>
        /\ pure.out.valid <=> IsValidSequence(pure.secret, pure.n)
        /\ ~pure.out.valid => pure.out.error # "none"
        /\ pure.out.valid => pure.out.error = "none"
        /\ gs = [p \in Peers |-> InitialState] /\ slot = NoMsg

\* "1123" with n = 4 has been rejected for its repeated digit
C2_Witness ==
    /\ pure.fn = "validate" /\ pure.done
    /\ pure.secret = <<1, 1, 2, 3>> /\ pure.n = 4
    /\ ~pure.out.valid
    /\ pure.out.error = "No repeated digits allowed"

-----------------------------------------------------------------------------
(* Properties of a match, checked under Spec.  Every action writes lastOp,  *)
(* so a step with lastOp'.op = o is a step of the operation o.              *)

Opponent(x) == IF x = "player1" THEN "player2" ELSE "player1"
SecretOf(state, x) ==
    IF x = "player1" THEN state.player1Secret ELSE state.player2Secret
HistoryOf(state, x) ==
    IF x = "player1" THEN state.player1History ELSE state.player2History
TurnOf(x) == IF x = "player1" THEN "TURN_P1" ELSE "TURN_P2"
IsPrefix(s, t) == Len(s) <= Len(t) /\ \A i \in 1..Len(s) : s[i] = t[i]

\* every record of x's history, in the state p holds, is the score of its
\* guess against the opponent's secret of that state
ScoredAgainstOpponent(p, x) ==
    \A i \in 1..Len(HistoryOf(gs[p], x)) :
        LET r == HistoryOf(gs[p], x)[i]
            target == SecretOf(gs[p], Opponent(x))
        IN  /\ target # << >>
            /\ [on |-> r.on, order |-> r.order] = ScoreByCounting(target, r.guess)

\* C3: in every reachable state, of every mode and of both peers online,
\* each record of player1History carries the score of its guess against
\* player2Secret and each record of player2History the score against
\* player1Secret; no record is scored against an empty or the guesser's own
\* secret.
C3_FeedbackIsScoreAgainstOpponentSecret ==
    \A p \in Screens :
        ScoredAgainstOpponent(p, "player1") /\ ScoredAgainstOpponent(p, "player2")

\* the player whose guess a step of submitGuess, of the timeout or of the
\* CPU callback carries: the CPU is player 2, a human guesses for the
\* player whose turn phase it is
GuesserOfStep(p) ==
    IF lastOp'.op = "aiTurn" THEN "player2"
    ELSE IF gs[p].phase = "TURN_P1" THEN "player1" ELSE "player2"

\* a step that accepted a guess (validated it and changed the match)
AcceptedGuessStep == lastOp'.op \in {"submitGuess", "timeout", "aiTurn"} /\ gs' # gs

\* the score of the accepted guess against the secret of the guesser's opponent
ScoreOfStep(p) ==
    ScoreByCounting(SecretOf(gs[p], Opponent(GuesserOfStep(p))), lastOp'.arg)

C4_Step ==
    AcceptedGuessStep =>
        LET p == lastOp'.by
            x == GuesserOfStep(p)
            hist == HistoryOf(gs'[p], x)
        IN  ScoreOfStep(p).order = N =>
                /\ gs'[p].phase = "GAME_OVER"
                /\ gs'[p].winner = x
                /\ Len(hist) = Len(HistoryOf(gs[p], x)) + 1
                /\ hist[Len(hist)] = [guess |-> lastOp'.arg, on |-> N, order |-> N]

\* C4: an accepted guess by player X that scores order = n against the
\* opponent's secret ends the match in the same step: the phase is GAME_OVER,
\* the winner is X and the winning record is the last of X's history.
C4_WinningGuessEndsMatch == [][C4_Step]_vars

\* the guest has just won an online match with the guess it submitted
C4_Witness ==
    /\ isOnline
    /\ lastOp.op = "submitGuess" /\ lastOp.by = "GUEST"
    /\ gs["GUEST"].phase = "GAME_OVER"
    /\ gs["GUEST"].winner = "player2"
    /\ Len(gs["GUEST"].player2History) > 0
    /\ gs["GUEST"].player2History[Len(gs["GUEST"].player2History)] =
          [guess |-> lastOp.arg, on |-> N, order |-> N]

\* C5: once both secrets are set and no guess has been made, the phase is
\* TURN_P1 (in a local two-player match the hand-off TRANSITION may still be
\* showing); online this holds on both peers, whoever set its secret first.
C5_BothSecretsSetStartsTurnP1 ==
    \A p \in Screens :
        ( /\ gs[p].player1Secret # << >>
          /\ gs[p].player2Secret # << >>
          /\ gs[p].player1History = << >>
          /\ gs[p].player2History = << >> )
        => \/ gs[p].phase = "TURN_P1"
           \/ mode = "2P" /\ gs[p].phase = "TRANSITION"

C6_Step ==
    \A p \in Screens :
        /\ Len(gs'[p].player1History) > Len(gs[p].player1History)
              => gs[p].phase = "TURN_P1"
        /\ Len(gs'[p].player2History) > Len(gs[p].player2History)
              => gs[p].phase = "TURN_P2"

\* C6: a record is added to player1History only by a step taken in phase
\* TURN_P1 and to player2History only by a step taken in phase TURN_P2 (CPU
\* moves, timeouts and received guesses included).
C6_RecordsAppendedInOwnTurn == [][C6_Step]_vars

C7_Step ==
    /\ (lastOp'.op \in {"submitGuess", "timeout"} /\ gs' # gs) =>
          LET p == lastOp'.by
          IN  ScoreOfStep(p).order # N =>
                  gs'[p].phase = IF mode = "2P" THEN "TRANSITION"
                                 ELSE TurnOf(Opponent(GuesserOfStep(p)))
    /\ (lastOp'.op = "aiTurn" /\ gs' # gs /\ ScoreOfStep("HOST").order # N) =>
          gs'["HOST"].phase = "TURN_P1"
    /\ ( /\ lastOp'.op = "transition"
         /\ Len(gs["HOST"].player1History) + Len(gs["HOST"].player2History) > 0 ) =>
          gs'["HOST"].phase =
              IF Len(gs["HOST"].player1History) > Len(gs["HOST"].player2History)
              THEN "TURN_P2" ELSE "TURN_P1"
    /\ \A p \in Screens :
          (gs'[p].phase \in {"TURN_P1", "TURN_P2"} /\ gs'[p].phase # gs[p].phase)
              => timeLeft'[p] = TimeLimit

\* C7: after an accepted guess of player X that does not win, the next turn
\* phase is the other player's (in a local two-player match through one
\* TRANSITION), and the timer shows config.timeLimit when a turn starts.
C7_TurnsAlternate == [][C7_Step]_vars

C8_Step ==
    ( /\ lastOp'.op \in {"submitSecret", "submitGuess"}
      /\ ~IsValidSequence(lastOp'.arg, N) )
    => UNCHANGED <<gs, timeLeft, isAiThinking, slot, seen, snap>>

C9_Step ==
    lastOp'.op # "playAgain" =>
        \A p \in Screens :
            /\ gs[p].player1Secret # << >>
                  => gs'[p].player1Secret = gs[p].player1Secret
            /\ gs[p].player2Secret # << >>
                  => gs'[p].player2Secret = gs[p].player2Secret

\* C9: a secret that is set keeps its value in every later state of the
\* match, on both peers online; only a restart clears it.
C9_SecretNeverChanges == [][C9_Step]_vars

C10_Step ==
    lastOp'.op # "playAgain" =>
        \A p \in Screens :
            /\ IsPrefix(gs[p].player1History, gs'[p].player1History)
            /\ IsPrefix(gs[p].player2History, gs'[p].player2History)

\* C10: in every step other than a restart each history keeps its records
\* as a prefix: records are only appended, never removed, reordered or
\* rewritten, also on receipt of GUESS_MADE and SYNC_RESPONSE.
C10_HistoriesOnlyGrow == [][C10_Step]_vars

\* C11: winner is null in every state whose phase is not GAME_OVER, and once a
\* screen is in GAME_OVER with a winner set, no step other than Play Again
\* changes its phase, its winner or either of its histories (late or duplicate
\* network messages and the pending CPU callback included).
C11_WinnerNullOutsideGameOver ==
    \A p \in Screens : gs[p].phase # "GAME_OVER" => gs[p].winner = "null"

C11_Step ==
    /\ C11_WinnerNullOutsideGameOver'
    /\ lastOp'.op # "playAgain" =>
         \A p \in Screens :
            (gs[p].phase = "GAME_OVER" /\ gs[p].winner # "null") =>
               /\ gs'[p].phase = gs[p].phase
               /\ gs'[p].winner = gs[p].winner
               /\ gs'[p].player1History = gs[p].player1History
               /\ gs'[p].player2History = gs[p].player2History

C11_WinnerOnlyInGameOverAndFinal == [][C11_Step]_vars

-----------------------------------------------------------------------------
(* Claims about the solver, checked under PureSpec                          *)

\* p reproduces the (on, order) recorded for every guess of the history
ReproducesFeedback(p, history) ==
    \A i \in 1..Len(history) :
        computeOnAndOrder(p, history[i].guess) =
            [on |-> history[i].on, order |-> history[i].order]

\* C12: for every n in {2, 3, 4} and every non-empty history with which at
\* least one repeat-free sequence of n digits is consistent, the sequence p
\* that getCpuPerfectGuess returns satisfies computeOnAndOrder(p, g) =
\* (on, order) for every record (g, on, order) of the history.
C12_SolverGuessIsConsistent ==
    (/\ pure.fn = "solve" /\ pure.done
     /\ Len(pure.history) > 0
     /\ \E s \in RepeatFree(PureDigits, pure.n) :
           ReproducesFeedback(s, pure.history))
    => /\ pure.out \in RepeatFree(PureDigits, pure.n)
       /\ ReproducesFeedback(pure.out, pure.history)

\* n = 3, the guess 012 scored (on 2, order 1) and the guess 102 scored
\* (on 2, order 0): the solver has returned 031, which scores the same
C12_Witness ==
    /\ pure.fn = "solve" /\ pure.done /\ pure.n = 3
    /\ pure.history = <<[guess |-> <<0, 1, 2>>, on |-> 2, order |-> 1],
                        [guess |-> <<1, 0, 2>>, on |-> 2, order |-> 0]>>
    /\ pure.out = <<0, 3, 1>>

-----------------------------------------------------------------------------
(* Claims about the CPU turn and the peers, checked under Spec              *)

\* the sequence 0, 1, ..., n-1
Opener(n) == [i \in 1..n |-> i - 1]

\* a step of the CPU callback that appended a record to player2History
CpuGuessStep ==
    /\ lastOp'.op = "aiTurn"
    /\ Len(gs'["HOST"].player2History) = Len(gs["HOST"].player2History) + 1

\* C13: when the CPU's own history is empty, the guess it makes is the fixed
\* sequence 0, 1, ..., n-1 ('01' for n = 2), whatever the random source gives.
C13_Step ==
    (CpuGuessStep /\ gs["HOST"].player2History = << >>) =>
        gs'["HOST"].player2History[1].guess = Opener(N)

C13_FirstCpuGuessIsFixedOpener == [][C13_Step]_vars

\* C14: in a single-player match every k-th CPU guess (k >= 2) recorded in
\* player2History is consistent with all earlier CPU feedback: scored against
\* each earlier guess g_j it gives the (on, order) recorded for g_j.
C14_CpuGuessesConsistentWithFeedback ==
    mode = "1P" =>
        LET h == gs["HOST"].player2History
        IN  \A k \in 2..Len(h) : \A j \in 1..(k - 1) :
               computeOnAndOrder(h[k].guess, h[j].guess) =
                   [on |-> h[j].on, order |-> h[j].order]

\* the player a peer plays in an online match
RoleOf(p) == IF isPlayer1(p) THEN "player1" ELSE "player2"

\* the listener of peer p processes a GUESS_MADE message whose guess won the
\* match on the sender's instance
WinningGuessProcessed(p) ==
    /\ lastOp'.op = "recvGuessMade" /\ lastOp'.by = p
    /\ gs[Other(p)].phase = "GAME_OVER"
    /\ gs[Other(p)].winner = RoleOf(Other(p))
    /\ slot.guess = SecretOf(gs[Other(p)], RoleOf(p))

\* C15: online, once the peer of the player whose guess equalled the
\* opponent's secret has processed the guess message, both peers are in
\* GAME_OVER and both record the guesser as the winner.
C15_Step ==
    \A p \in Peers :
        WinningGuessProcessed(p) =>
            \A q \in Peers : /\ gs'[q].phase = "GAME_OVER"
                             /\ gs'[q].winner = RoleOf(Other(p))

C15_PeersAgreeOnWinner == [][C15_Step]_vars

\* C16: online, the listener of peer p processing the opponent's GUESS_MADE
\* appends exactly one record, the opponent's guess scored against p's own
\* secret, to the opponent's history, and leaves p's own history and both
\* secrets unchanged; the same for the host and for the guest.
C16_Step ==
    \A p \in Peers :
        (lastOp'.op = "recvGuessMade" /\ lastOp'.by = p) =>
            LET me == RoleOf(p)
                opp == RoleOf(Other(p))
                record == GuessResult(slot.guess,
                              computeOnAndOrder(SecretOf(gs[p], me), slot.guess))
            IN  /\ HistoryOf(gs'[p], opp) = Append(HistoryOf(gs[p], opp), record)
                /\ HistoryOf(gs'[p], me) = HistoryOf(gs[p], me)
                /\ gs'[p].player1Secret = gs[p].player1Secret
                /\ gs'[p].player2Secret = gs[p].player2Secret

C16_ReceivedGuessAppendsToOpponentHistory == [][C16_Step]_vars

\* no listener call, handshake interval, countdown or CPU callback is
\* pending on either peer: without a new submission nothing changes any more
Quiescent ==
    /\ isOnline
    /\ \A p \in Peers : /\ ~(Foreign(slot, p) /\ ~seen[p])
                        /\ gs[p].phase # "WAITING_FOR_OPPONENT"
                        /\ ~(isMyTurn(p) /\ warmupComplete(p))
    /\ ~isAiThinking

\* the two peers hold the same phase, secrets and histories
PeersAgree ==
    /\ gs["HOST"].phase = gs["GUEST"].phase
    /\ gs["HOST"].player1Secret = gs["GUEST"].player1Secret
    /\ gs["HOST"].player2Secret = gs["GUEST"].player2Secret
    /\ gs["HOST"].player1History = gs["GUEST"].player1History
    /\ gs["HOST"].player2History = gs["GUEST"].player2History

\* each peer has submitted its own secret
BothSubmittedSecret ==
    gs["HOST"].player1Secret # << >> /\ gs["GUEST"].player2Secret # << >>

\* C17: online eventual consistency.  When both peers have stopped
\* submitting, every message that was sent has been delivered (none was
\* overwritten before its delivery, none is waiting) and nothing else is
\* pending, the state of the match can no longer change, so the two peers
\* must agree on the phase, on both secrets and on both histories.  Stated
\* for matches in which each peer has submitted its secret, so that the two
\* setup screens (SETUP_P1 on the host, SETUP_P2 on the guest) are not
\* counted as a disagreement.
C17_QuiescentPeersAgree ==
    (Quiescent /\ ~lost /\ BothSubmittedSecret) => PeersAgree

\* the player whose turn the phase of a state names
MoverOf(state) == IF state.phase = "TURN_P1" THEN "player1" ELSE "player2"

\* C18: when the countdown of player X's timed turn runs out, a guess is
\* submitted for X: X's own most recent guess, or a valid sequence when X
\* has none; it is appended to X's history with its feedback against the
\* opponent's secret, the match ends with X as winner when it scores
\* order = n, and the timer does not stay at zero in a turn phase.
C18_Step ==
    \A p \in Screens :
        (lastOp'.op = "timeout" /\ lastOp'.by = p) =>
            LET X == MoverOf(gs[p])
                own == HistoryOf(gs[p], X)
                guess == lastOp'.arg
                result == computeOnAndOrder(SecretOf(gs[p], Opponent(X)), guess)
            IN  /\ IF Len(own) > 0 THEN guess = own[Len(own)].guess
                   ELSE validateSequence(guess, N).valid
                /\ HistoryOf(gs'[p], X) = Append(own, GuessResult(guess, result))
                /\ IsWin(result) =>
                      gs'[p].phase = "GAME_OVER" /\ gs'[p].winner = X
                /\ gs'[p].phase \in {"TURN_P1", "TURN_P2"} => timeLeft'[p] > 0

C18_TimeoutForcesOwnLastGuess == [][C18_Step]_vars

\* the condition under which the claim lets the countdown of screen p run
TimedTurn(p) ==
    /\ gs[p].phase \in {"TURN_P1", "TURN_P2"}
    /\ Len(HistoryOf(gs[p], MoverOf(gs[p]))) >= 1
    /\ ~isAiThinking

\* C19: the countdown runs (a tick takes exactly one off the remaining time)
\* if and only if the phase is a turn phase, the player to move has at least
\* one recorded guess and the CPU is not thinking; in every other state the
\* remaining time is left alone by a tick; the remaining time stays within
\* 0..config.timeLimit.  Online, each peer is asked only about its own turn.
C19_CountdownRunsIffTimedTurn ==
    \A p \in Screens :
        /\ timeLeft[p] \in 0..TimeLimit
        /\ (isOnline => RoleOf(p) = MoverOf(gs[p])) =>
              ((isMyTurn(p) /\ warmupComplete(p)) <=> TimedTurn(p))

C19_Step ==
    /\ C19_CountdownRunsIffTimedTurn'
    /\ \A p \in Screens :
          (lastOp'.op = "tick" /\ lastOp'.by = p) =>
              /\ TimedTurn(p)
              /\ timeLeft'[p] = timeLeft[p] - 1

C19_TickDecrementsIffTimedTurn == [][C19_Step]_vars

\* the initial phase for the mode
InitialPhase == IF isOnline THEN "WAITING_FOR_OPPONENT" ELSE "SETUP_P1"

\* screen p shows a match in which nothing has been entered yet
Fresh(p) ==
    /\ gs[p].phase = InitialPhase
    /\ gs[p].player1Secret = << >> /\ gs[p].player2Secret = << >>
    /\ gs[p].player1History = << >> /\ gs[p].player2History = << >>
    /\ gs[p].winner = "null"

\* C20: PLAY AGAIN on a finished match yields the initial phase for the mode,
\* both secrets empty, both histories empty, winner null and the timer at
\* config.timeLimit (the config is never written); and nothing of the
\* finished match comes back: no record and no winner appears in the new
\* match before anything has been entered in it.
C20_Step ==
    \A p \in Screens :
        /\ (lastOp'.op = "playAgain" /\ lastOp'.by = p) =>
              Fresh(p)' /\ timeLeft'[p] = TimeLimit
        /\ Fresh(p) =>
              /\ gs'[p].player1History = << >>
              /\ gs'[p].player2History = << >>
              /\ gs'[p].winner = "null"

C20_RestartYieldsFreshMatch == [][C20_Step]_vars

\* C21: in single-player mode an accepted secret in SETUP_P1 moves the match
\* directly to TURN_P1 with player2Secret set to a generated valid sequence
\* of length n, and no single-player state has phase SETUP_P2, TRANSITION or
\* WAITING_FOR_OPPONENT.
C21_Step ==
    /\ (mode = "1P")' =>
          gs'["HOST"].phase \notin {"SETUP_P2", "TRANSITION", "WAITING_FOR_OPPONENT"}
    /\ (/\ mode = "1P"
        /\ lastOp'.op = "submitSecret"
        /\ gs["HOST"].phase = "SETUP_P1"
        /\ validateSequence(lastOp'.arg, N).valid) =>
          /\ gs'["HOST"].phase = "TURN_P1"
          /\ gs'["HOST"].player1Secret = lastOp'.arg
          /\ validateSequence(gs'["HOST"].player2Secret, N).valid

C21_SinglePlayerSkipsSetupP2AndHandoff == [][C21_Step]_vars

\* the secret 01 was accepted and the match is in TURN_P1 with a CPU secret
C21_Witness ==
    /\ mode = "1P"
    /\ lastOp = Op("submitSecret", "HOST", <<0, 1>>)
    /\ gs["HOST"].phase = "TURN_P1"
    /\ gs["HOST"].player2Secret = <<1, 0>>

\* the phases in which one player of a local match holds the device
OwnerOf(phase) ==
    IF phase \in {"SETUP_P1", "TURN_P1"} THEN "player1"
    ELSE IF phase \in {"SETUP_P2", "TURN_P2"} THEN "player2"
    ELSE "none"

\* C22: in local two-player mode the phase never moves directly from one
\* player's setup or turn phase to a phase of the other player (a TRANSITION
\* lies between), and leaving TRANSITION goes to SETUP_P2 if player 2 has no
\* secret, otherwise to TURN_P1 when both histories have equal length and to
\* TURN_P2 when player 1 has one more guess.
C22_Step ==
    mode = "2P" =>
        LET old == gs["HOST"]
            new == gs'["HOST"]
        IN  /\ OwnerOf(old.phase) # "none" =>
                  new.phase \in {old.phase, "TRANSITION", "GAME_OVER"}
            /\ (old.phase = "TRANSITION" /\ new.phase # "TRANSITION") =>
                  new.phase =
                     IF old.player2Secret = << >> THEN "SETUP_P2"
                     ELSE IF Len(old.player1History) = Len(old.player2History)
                     THEN "TURN_P1"
                     ELSE "TURN_P2"
            /\ (old.phase = "TRANSITION" /\ new.phase = "TURN_P2") =>
                  Len(old.player1History) = Len(old.player2History) + 1

C22_HandoffBetweenPlayers == [][C22_Step]_vars

\* after player 1's first guess the hand-off has given the device to player 2
C22_Witness ==
    /\ mode = "2P"
    /\ lastOp.op = "transition"
    /\ gs["HOST"].phase = "TURN_P2"
    /\ Len(gs["HOST"].player1History) = 1
    /\ Len(gs["HOST"].player2History) = 0

\* C23: in a single-player match in which the player has set a secret (123
\* with n = 3 in the QA script, any valid secret of length N here), the
\* human submitting that same sequence as a guess on their turn ends the
\* match: phase GAME_OVER, winner the human, recorded feedback (n, n).
C23_Step ==
    (/\ mode = "1P"
     /\ lastOp'.op = "submitGuess"
     /\ gs["HOST"].phase = "TURN_P1"
     /\ gs' # gs
     /\ lastOp'.arg = gs["HOST"].player1Secret) =>
        LET h == gs'["HOST"].player1History
        IN  /\ gs'["HOST"].phase = "GAME_OVER"
            /\ gs'["HOST"].winner = "player1"
            /\ Len(h) > 0
            /\ h[Len(h)] = [guess |-> lastOp'.arg, on |-> N, order |-> N]

C23_GuessingOwnSecretWins == [][C23_Step]_vars

-----------------------------------------------------------------------------
(* Further claims about the pure functions, checked under PureSpec          *)

\* the secret and the guess of the call are valid sequences of length n
ValidPair ==
    /\ IsValidSequence(pure.secret, pure.n)
    /\ IsValidSequence(pure.guess, pure.n)

\* C24: for valid sequences of equal length n, order = n exactly when the
\* guess equals the secret, and then on = n as well (score(s, s) = (n, n));
\* so the win test on order alone agrees with the test on = n and order = n.
C24_FullOrderIffGuessIsSecret ==
    (pure.fn = "score" /\ pure.done /\ ValidPair) =>
        /\ (pure.out.order = pure.n) <=> (pure.guess = pure.secret)
        /\ (pure.guess = pure.secret) =>
              pure.out = [on |-> pure.n, order |-> pure.n]
        /\ (pure.out.order = pure.n) <=>
              (pure.out.on = pure.n /\ pure.out.order = pure.n)

\* 9876 scored against itself has returned (4, 4)
C24_Witness ==
    /\ pure.fn = "score" /\ pure.done
    /\ pure.secret = <<9, 8, 7, 6>> /\ pure.guess = <<9, 8, 7, 6>>
    /\ pure.out = [on |-> 4, order |-> 4]

\* C25: for all valid secret/guess pairs of equal length n the feedback
\* satisfies 0 <= order <= on <= n.
C25_OrderAtMostOnAtMostN ==
    (pure.fn = "score" /\ pure.done /\ ValidPair) =>
        /\ 0 <= pure.out.order
        /\ pure.out.order <= pure.out.on
        /\ pure.out.on <= pure.n

\* 582 scored against 528 has returned (3, 1): 0 <= 1 <= 3 <= 3
C25_Witness ==
    /\ pure.fn = "score" /\ pure.done
    /\ pure.secret = <<5, 8, 2>> /\ pure.guess = <<5, 2, 8>>
    /\ pure.out = [on |-> 3, order |-> 1]

\* the permutations of the digits 0-9 that move only the digits of
\* PureDigits, and a sequence relabelled digit by digit
Relabelings == Permutations(PureDigits)
Relabel(r, s) == [i \in 1..Len(s) |-> IF s[i] \in DOMAIN r THEN r[s[i]] ELSE s[i]]

\* C26: for every permutation r of the digits and every valid pair (secret,
\* guess) of equal length, score(r(secret), r(guess)) = score(secret, guess),
\* where r is applied digit by digit.
C26_ScoreInvariantUnderRelabeling ==
    (pure.fn = "score" /\ pure.done /\ ValidPair) =>
        \A r \in Relabelings :
            computeOnAndOrder(Relabel(r, pure.secret), Relabel(r, pure.guess))
                = pure.out

\* 012 scored against 031 has returned (2, 1), and so does the pair
\* relabelled by 0 -> 3, 1 -> 0, 2 -> 1, 3 -> 2 (301 against 320)
C26_Witness ==
    /\ pure.fn = "score" /\ pure.done
    /\ pure.secret = <<0, 1, 2>> /\ pure.guess = <<0, 3, 1>>
    /\ pure.out = [on |-> 2, order |-> 1]
    /\ computeOnAndOrder(<<3, 0, 1>>, <<3, 2, 0>>) = pure.out

\* C27, as stated: swapping the two arguments of score never changes on,
\* whereas order depends on which argument is the secret: there are valid
\* pairs a, b of equal length with order(a, b) different from order(b, a).
C27_OnSymmetricOrderNot ==
    (pure.fn = "score" /\ pure.done /\ ValidPair) =>
        /\ computeOnAndOrder(pure.guess, pure.secret).on = pure.out.on
        /\ \E a \in RepeatFree(PureDigits, pure.n) :
           \E b \in RepeatFree(PureDigits, pure.n) :
              computeOnAndOrder(a, b).order # computeOnAndOrder(b, a).order

\* C27, amended: for valid sequences of equal length swapping the two
\* arguments of score changes neither on nor order.
C27_OnAndOrderSymmetric ==
    (pure.fn = "score" /\ pure.done /\ ValidPair) =>
        computeOnAndOrder(pure.guess, pure.secret) = pure.out

\* 1234 scored against 4321 has returned (4, 0), and 4321 scored against
\* 1234 gives the same
C27_Witness ==
    /\ pure.fn = "score" /\ pure.done
    /\ pure.secret = <<1, 2, 3, 4>> /\ pure.guess = <<4, 3, 2, 1>>
    /\ pure.out = [on |-> 4, order |-> 0]
    /\ computeOnAndOrder(<<4, 3, 2, 1>>, <<1, 2, 3, 4>>) = pure.out

\* C28: validateSequence checks length, then digits-only, then no-repeats
\* and reports the first rule that fails: a string of the wrong length is
\* rejected as wrong-length whatever else is wrong with it, a string of the
\* right length with a non-digit is rejected as non-digit even if a
\* character repeats; so '12' for n = 4 is wrong-length, 'abcd' is non-digit
\* and '1123' is a repeated digit.
C28_FirstFailingRuleIsReported ==
    (pure.fn = "validate" /\ pure.done) =>
        LET x == pure.secret
            hasNonDigit == \E i \in 1..Len(x) : x[i] \notin 0..9
            hasRepeat == \E i, j \in 1..Len(x) : i # j /\ x[i] = x[j]
        IN  /\ Len(x) # pure.n => pure.out.error = "Length must be n"
            /\ (Len(x) = pure.n /\ hasNonDigit) =>
                  pure.out.error = "Only digits 0-9 allowed"
            /\ (Len(x) = pure.n /\ ~hasNonDigit /\ hasRepeat) =>
                  pure.out.error = "No repeated digits allowed"
            /\ (pure.n = 4 /\ x = <<1, 2>>) => pure.out.error = "Length must be n"
            /\ (pure.n = 4 /\ x = <<NonDigit, NonDigit, NonDigit, NonDigit>>) =>
                  pure.out.error = "Only digits 0-9 allowed"
            /\ (pure.n = 4 /\ x = <<1, 1, 2, 3>>) =>
                  pure.out.error = "No repeated digits allowed"

\* a string of length 4 with a non-digit that repeats has been rejected for
\* the non-digit
C28_Witness ==
    /\ pure.fn = "validate" /\ pure.done /\ pure.n = 4
    /\ pure.secret = <<1, NonDigit, NonDigit, 2>>
    /\ pure.out = [valid |-> FALSE, error |-> "Only digits 0-9 allowed"]

\* C29: for every n in {2, 3, 4} and every outcome of the random source,
\* generateRandomSecret returns a string that validateSequence accepts for n
\* (n digits, none repeated), and every valid sequence of length n is a
\* possible output (here: every one over the digits the model draws from).
C29_GeneratedSecretIsValidAndAnyValidIsPossible ==
    pure.fn = "generate" =>
        /\ pure.done => /\ validateSequence(pure.out, pure.n).valid
                        /\ IsValidSequence(pure.out, pure.n)
        /\ \A s \in RepeatFree(PureDigits, pure.n) :
              s \in generateRandomSecret(PureDigits, pure.n)

\* generateRandomSecret(4) has returned 3102
C29_Witness ==
    /\ pure.fn = "generate" /\ pure.done /\ pure.n = 4
    /\ pure.out = <<3, 1, 0, 2>>

\* C30: for any guess history, including one whose feedback no repeat-free
\* sequence satisfies, getCpuPerfectGuess returns a valid sequence of length
\* n; when the filtered candidate list is empty it returns a generated
\* random sequence instead of failing or returning an empty guess.
C30_SolverAlwaysReturnsValidSequence ==
    pure.fn = "solve" =>
        /\ ~pure.done => getCpuPerfectGuess(PureDigits, pure.n, pure.history) # {}
        /\ pure.done =>
              /\ validateSequence(pure.out, pure.n).valid
              /\ (~ \E s \in RepeatFree(PureDigits, pure.n) :
                       ReproducesFeedback(s, pure.history)) =>
                    pure.out \in generateRandomSecret(PureDigits, pure.n)

\* n = 2, one record (guess 01, on 0, order 2) that no sequence satisfies:
\* the solver has returned the random sequence 32
C30_Witness ==
    /\ pure.fn = "solve" /\ pure.done /\ pure.n = 2
    /\ pure.history = <<[guess |-> <<0, 1>>, on |-> 0, order |-> 2]>>
    /\ pure.out = <<3, 2>>

-----------------------------------------------------------------------------
\* the player a winner string of a MatchRecord written on p's device names
NamedPlayer(str, p) ==
    IF str \in {"username"} THEN "player1"
    ELSE IF str \in {"CPU", "p2Name"} THEN "player2"
    ELSE IF str = "Me" THEN (IF isSinglePlayer THEN "player1" ELSE RoleOf(p))
    ELSE IF str = "oppName" THEN Opponent(RoleOf(p))
    ELSE "null"

\* a step in which the guess submitted on p's device (by its user, by the
\* timeout, or by the CPU) ends the match: saveHistory(winner, prev) is called
WinningStepAt(p) ==
    /\ AcceptedGuessStep /\ lastOp'.by = p
    /\ gs[p].phase # "GAME_OVER" /\ gs'[p].phase = "GAME_OVER"

\* C31: the MatchRecord written when a match ends is a snapshot of the final
\* state: it names the actual winner and its round count includes the
\* winning guess (it is the number of guesses the winner made).
C31_Step ==
    \A p \in Screens :
        WinningStepAt(p) =>
            LET x == GuesserOfStep(p)
                record == saveHistory(gs'[p].winner, gs[p], p)
            IN  /\ NamedPlayer(record.winner, p) = x
                /\ record.rounds = Len(HistoryOf(gs'[p], x))

C31_MatchRecordIsSnapshotOfFinalState == [][C31_Step]_vars

-----------------------------------------------------------------------------
\* the payload of message m holds a player's secret
CarriesSecret(m) ==
    \/ m.type = "SECRET_SET" /\ m.secret # << >>
    \/ m.type = "SYNC_RESPONSE" /\ (m.p1Secret # << >> \/ m.p2Secret # << >>)

\* C32: while the match is in progress (no peer has reached GAME_OVER), no
\* message on the shared channel contains a player's secret, whatever its
\* type; only guesses and result integers are shared.
C32_NoSecretOnChannelBeforeGameOver ==
    (isOnline /\ \A p \in Peers : gs[p].phase # "GAME_OVER") => ~CarriesSecret(slot)

-----------------------------------------------------------------------------
TurnPhases == {"TURN_P1", "TURN_P2"}

\* C33: the gameplay loop has no stuck states; in particular online, once
\* both players have submitted valid secrets and every message that was sent
\* has been delivered (none overwritten, none waiting), both peers are in a
\* turn phase (or the match is over) without a manual refresh.
C33_SecretsDeliveredBothPeersInTurnPhase ==
    (Quiescent /\ ~lost /\ BothSubmittedSecret /\ used.refresh = 0) =>
        \A p \in Peers : gs[p].phase \in TurnPhases \cup {"GAME_OVER"}

-----------------------------------------------------------------------------
\* the calls of joinMatchByCode that returned { matchId }
Joined == {c \in Callers : join.pc[c] = "returned"}

\* C34: joinMatchByCode admits at most one guest per hosted match: under any
\* interleaving of concurrent callers with the same join code at most one
\* call returns successfully.
C34_AtMostOneGuestJoins == Cardinality(Joined) <= 1

-----------------------------------------------------------------------------
\* the guest leaves the lobby in this step
GuestLeavesLobby ==
    /\ isOnline
    /\ gs["GUEST"].phase = "WAITING_FOR_OPPONENT"
    /\ gs'["GUEST"].phase # "WAITING_FOR_OPPONENT"

\* C35: online handshake.  A guest in WAITING_FOR_OPPONENT whose host has
\* started the game is brought to SETUP_P2 by the handshake it repeats every
\* 2 seconds, and it never leaves WAITING_FOR_OPPONENT before the host has
\* started: every step in which the guest leaves the lobby takes it to
\* SETUP_P2 while the host's phase is no longer WAITING_FOR_OPPONENT.
C35_Step ==
    GuestLeavesLobby =>
        /\ gs'["GUEST"].phase = "SETUP_P2"
        /\ gs["HOST"].phase # "WAITING_FOR_OPPONENT"

C35_GuestLeavesLobbyForSetupP2 == [][C35_Step]_vars

-----------------------------------------------------------------------------
\* the key pad on p's device accepts a guess for player 1
Player1CanGuess(p) ==
    /\ KeypadEnabled(p)
    /\ gs[p].phase = "TURN_P1"
    /\ isPlayer1(p)

\* C36: turn balance.  In every reachable state of every mode
\* 0 <= |player1History| - |player2History| <= 1, and player 1 is able to
\* submit a guess only when the two lengths are equal, also after a pause
\* and resume of the session taken while the CPU's move is pending.
C36_TurnBalance ==
    \A p \in Screens :
        LET ahead == Len(gs[p].player1History) - Len(gs[p].player2History)
        IN  /\ 0 <= ahead /\ ahead <= 1
            /\ Player1CanGuess(p) => ahead = 0

-----------------------------------------------------------------------------
(* C37                                                                     *)

\* in a match nobody has restarted, the listener of p is called with a
\* GUESS_MADE although p's copy of the sender's history has as many records
\* as the sender has submitted guesses: the message was applied before
AppliesGuessAgain(p) ==
    /\ used.restart = 0
    /\ lastOp'.op = "recvGuessMade" /\ lastOp'.by = p
    /\ Len(HistoryOf(gs[p], RoleOf(Other(p)))) >=
           Len(HistoryOf(gs[Other(p)], RoleOf(Other(p))))

\* C37: online, every guess a peer submits gives exactly one record in that
\* player's history at the receiving peer: the listener never applies a
\* GUESS_MADE a second time, also when the adapter was re-created by a phase
\* change while the message was still the channel's latest value.
C37_Step == \A p \in Peers : ~AppliesGuessAgain(p)

C37_GuessAppliedExactlyOnce == [][C37_Step]_vars

-----------------------------------------------------------------------------
(* C38                                                                     *)

\* the records of history h with every digit in its place
WinningRecords(h) == {h[i] : i \in {j \in 1..Len(h) : h[j].order = N}}

\* record r is the last record of the history of the winner of state
IsLastOfWinner(state, r) ==
    /\ state.winner \in {"player1", "player2"}
    /\ LET h == HistoryOf(state, state.winner)
       IN  h # << >> /\ h[Len(h)] = r

\* C38: win detection is complete.  On every screen, if either history
\* holds a record with order = n then the phase is GAME_OVER and that record
\* is the last record of the winner's history; no setup or turn phase has a
\* winning record, also after a SYNC_RESPONSE merged the histories.
C38_WinningRecordMeansGameOver ==
    \A p \in Peers :
        \A r \in WinningRecords(gs[p].player1History) \cup
                  WinningRecords(gs[p].player2History) :
            /\ gs[p].phase = "GAME_OVER"
            /\ IsLastOfWinner(gs[p], r)

-----------------------------------------------------------------------------
(* C39                                                                     *)

\* C39: once a match has reached GAME_OVER and the change is persisted, the
\* storage of that device holds no active session of the finished match: a
\* stored session never has phase GAME_OVER.
C39_NoStoredSessionOfFinishedMatch ==
    \A p \in Peers : session[p].exists => session[p].state.phase # "GAME_OVER"

-----------------------------------------------------------------------------
(* C40                                                                     *)

\* the guesses recorded in history h
GuessesOf(h) == {h[i].guess : i \in 1..Len(h)}

\* C40: in a single-player match the CPU never repeats one of its own
\* earlier guesses: the guess a CPU turn appends to player2History is not
\* among the guesses recorded there before, so the CPU reaches the human's
\* secret within the number of sequences.
C40_Step ==
    (isSinglePlayer /\ CpuGuessStep) =>
        LET h == gs'["HOST"].player2History
        IN  h[Len(h)].guess \notin GuessesOf(gs["HOST"].player2History)

C40_CpuNeverRepeatsGuess == [][C40_Step]_vars

====
